---- MODULE Spec2Model ----
(***************************************************************************)
(* aido-cron: a timer registry (the `jobs` map of lib/index.js) kept next  *)
(* to a table of job records (lib/database/job.js).  The model follows     *)
(* lib/index.js function by function; every `await` of the source is a     *)
(* point where other handlers may run, so every async function is cut into *)
(* one action per stretch of code between two awaits.                      *)
(*                                                                         *)
(* Time is counted in seconds from the start of an arbitrary minute,       *)
(* 2026-11-01T20:41:00.000Z; the cron column of a record is a string, kept *)
(* here as the sequence of its characters.                                 *)
(***************************************************************************)
EXTENDS Integers, Sequences, FiniteSets, Bags, TLC

VARIABLES
    now,      \* the clock, in seconds
    up,       \* "down" after a restart, "init" inside initPlugin, "up" after it
    store,    \* the job table: store[id] is the row with that id
    timers,   \* the CronJob objects of this process run, by handle
    jobs,     \* the `jobs` map: registry key -> handle of a CronJob
    scheds,   \* scheduleTask calls suspended in their insert
    fires,    \* onTick callbacks in flight (a bag)
    cancels,  \* cancelCronJob calls in flight
    batches,  \* filter-path killTasks calls in flight
    initRows, \* rows read by initPlugin, not yet re-armed
    liveBefore \* history: the keys whose timer was running when the process stopped

vars == <<now, up, store, timers, jobs, scheds, fires, cancels, batches, initRows, liveBefore>>

(***************************************************************************)
(* Bounds of the model.                                                    *)
(***************************************************************************)
MaxTime == 2        \* the clock stops at this second
MaxDelay == 1       \* a one-shot job is scheduled at most this far ahead
MaxJobs == 2        \* jobs the callers create: rows, and ephemeral jobs of a run
MaxInFlight == 2    \* calls and callbacks suspended at an await at the same time

(***************************************************************************)
(* Values.                                                                 *)
(***************************************************************************)
Null == "null"
NO_PERSISTANCE == 0
DefaultMessage == "Killed by Aido command"

Users == {"U1", "U2"}
Actions == {"someAction"}

\* What emitSlash / emitAction or the store may throw, and error.toString().
DispatchErrors == {"network down"}
StoreErrors == {"store unreachable"}
ErrorToString(e) ==
    CASE e = "network down" -> "Error: network down"
      [] e = "store unreachable" -> "Error: store unreachable"

(***************************************************************************)
(* Strings: characters, their code points and the byte-wise order in which *)
(* the store compares two strings.                                         *)
(***************************************************************************)
Ord(c) ==
    CASE c = " " -> 32 [] c = "*" -> 42 [] c = "-" -> 45 [] c = "." -> 46
      [] c = "/" -> 47 [] c = "0" -> 48 [] c = "1" -> 49 [] c = "2" -> 50
      [] c = "3" -> 51 [] c = "4" -> 52 [] c = "5" -> 53 [] c = "6" -> 54
      [] c = "7" -> 55 [] c = "8" -> 56 [] c = "9" -> 57 [] c = ":" -> 58
      [] c = "T" -> 84 [] c = "Z" -> 90

Digits == <<"0", "1", "2", "3", "4", "5", "6", "7", "8", "9">>
DigitValue(c) == Ord(c) - 48
IsDigit(c) == Ord(c) >= 48 /\ Ord(c) <= 57

StrGreaterOrEqual(a, b) ==
    LET n == IF Len(a) < Len(b) THEN Len(a) ELSE Len(b)
        diff == {i \in 1..n : a[i] # b[i]}
    IN  IF diff = {}
        THEN Len(a) >= Len(b)
        ELSE LET k == CHOOSE i \in diff : \A j \in diff : i <= j
             IN  Ord(a[k]) > Ord(b[k])

\* The recurring pattern of the README.
EveryTenMinutes == <<"0", " ", "*", "/", "1", "0", " ", "*", " ", "*", " ", "*", " ", "*">>
Patterns == {EveryTenMinutes}

(***************************************************************************)
(* moment: toISOString, parsing and validity.                              *)
(***************************************************************************)
IsoHead == <<"2", "0", "2", "6", "-", "1", "1", "-", "0", "1", "T", "2", "0", ":", "4", "1", ":">>
IsoTail == <<".", "0", "0", "0", "Z">>

toISOString(t) ==
    IsoHead \o <<Digits[(t \div 10) + 1], Digits[(t % 10) + 1]>> \o IsoTail

isValid(s) ==
    /\ Len(s) = Len(IsoHead) + 2 + Len(IsoTail)
    /\ SubSeq(s, 1, Len(IsoHead)) = IsoHead
    /\ SubSeq(s, Len(IsoHead) + 3, Len(s)) = IsoTail
    /\ IsDigit(s[Len(IsoHead) + 1]) /\ IsDigit(s[Len(IsoHead) + 2])
    /\ DigitValue(s[Len(IsoHead) + 1]) <= 5

\* moment(s) for a valid s, as seconds.
momentOf(s) ==
    10 * DigitValue(s[Len(IsoHead) + 1]) + DigitValue(s[Len(IsoHead) + 2])

(***************************************************************************)
(* The cron library: what `new CronJob(cronTime, onTick, null, true, 'UTC')`*)
(* makes of its first argument.  A Date or moment gives a job that runs    *)
(* once; a string is a recurring pattern.                                  *)
(***************************************************************************)
DateTime(t) == [realDate |-> TRUE, at |-> t, source |-> <<>>]
PatternTime(p) == [realDate |-> FALSE, at |-> 0, source |-> p]

CronJobRunsOnce(key, cronTime, action) ==
    [key |-> key, cronTime |-> cronTime, runOnce |-> TRUE,
     action |-> action, running |-> TRUE]
CronJob(key, cronTime, action) ==
    [key |-> key, cronTime |-> cronTime, runOnce |-> cronTime.realDate,
     action |-> action, running |-> TRUE]

(***************************************************************************)
(* The job table (lib/database/job.js, extendDb).                          *)
(***************************************************************************)
Row(cron, user, slash, action, conversationWith, conversationAs) ==
    [cron |-> cron, user |-> user, slash |-> slash, action |-> action,
     conversationWith |-> conversationWith, conversationAs |-> conversationAs,
     done |-> Null, error |-> Null]

Ids == DOMAIN store
Patch(id, fields) ==
    [store EXCEPT ![id] = [f \in DOMAIN @ |-> IF f \in DOMAIN fields THEN fields[f] ELSE @[f]]]

(***************************************************************************)
(* setCronJob(persistedJob, cronTime): build the CronJob, start it, store  *)
(* it under jobs[id].  `ts` and `js` are the timers and the registry it    *)
(* starts from.                                                            *)
(***************************************************************************)
Registered(js, key, handle) ==
    [k \in DOMAIN js \cup {key} |-> IF k = key THEN handle ELSE js[k]]

\* A CronJob object is named by the key it was made for and its rank among
\* the objects made for that key.
Handle(ts, key) == <<key, Cardinality({h \in DOMAIN ts : h[1] = key}) + 1>>

setCronJobTimers(ts, key, cronTime, action) ==
    [h \in DOMAIN ts \cup {Handle(ts, key)} |->
        IF h \in DOMAIN ts THEN ts[h] ELSE CronJob(key, cronTime, action)]

setCronJobRegistry(ts, js, key) ==
    Registered(js, key, Handle(ts, key))

\* Line 56: what setCronJob returns.
setCronJobReturn(key) == key

\* The onTick callback, after the dispatch has returned.
PatchOnSuccessWhileRunning(job) == job.running /\ job.key # NO_PERSISTANCE
PatchOnSuccess(job) == job.runOnce /\ job.key # NO_PERSISTANCE
PatchOnErrorAlways(job) == TRUE
PatchOnError(job) == job.key # NO_PERSISTANCE
SuccessPatch == [done |-> "true"]
ErrorPatch(error) == [done |-> "false", error |-> ErrorToString(error)]

Ephemeral == {h \in DOMAIN timers : timers[h].key = NO_PERSISTANCE}

\* Calls and callbacks that are suspended at an await.  A filter call counts
\* while its query runs; afterwards the cancellations it fanned out do.
InFlight ==
    Cardinality(scheds) + BagCardinality(fires) + Cardinality(cancels)
      + Cardinality({b \in batches : b.pc = "query"})

(***************************************************************************)
(* scheduleTask: insert the row, then setCronJob.                          *)
(***************************************************************************)
CronColumn(cronTime) ==
    IF cronTime.realDate THEN toISOString(cronTime.at) ELSE cronTime.source

\* The times asked of scheduleTask: an instant ahead that the clock can still
\* pass, or a pattern.
CronTimes ==
    {DateTime(t) : t \in {u \in (now + 1)..(now + MaxDelay) : u < MaxTime}}
      \cup {PatternTime(p) : p \in Patterns}

\* A scheduleTask call suspended at line 75: the store has added the row and
\* given it `id`, or has refused with `error` (id is then the store's 0).
Inserting(id, cronTime, action, error) ==
    [id |-> id, cronTime |-> cronTime, action |-> action, error |-> error]

\* The store takes the insert: the row gets the next id of the table.
ScheduleTask(cronTime, user, slash, action, conversationAs) ==
    /\ up = "up"
    /\ Len(store) + Cardinality(Ephemeral) < MaxJobs
    /\ InFlight < MaxInFlight
    /\ store' = Append(store, Row(CronColumn(cronTime), user, slash, action, Null, conversationAs))
    /\ scheds' = scheds \cup {Inserting(Len(store) + 1, cronTime, action, Null)}
    /\ UNCHANGED <<now, up, timers, jobs, fires, cancels, batches, initRows, liveBefore>>

\* The store refuses the insert.
ScheduleTaskInsertFails(cronTime, action, error) ==
    /\ up = "up"
    /\ Len(store) + Cardinality(Ephemeral) < MaxJobs
    /\ InFlight < MaxInFlight
    /\ scheds' = scheds \cup {Inserting(0, cronTime, action, error)}
    /\ UNCHANGED <<now, up, store, timers, jobs, fires, cancels, batches, initRows, liveBefore>>

\* The await of line 75 returns the row: line 88, and the call resolves with
\* what setCronJob returns.
ScheduleTaskReturn(s) == setCronJobReturn(s.id)

ScheduleTaskArm(s) ==
    /\ s \in scheds
    /\ s.error = Null
    /\ scheds' = scheds \ {s}
    /\ timers' = setCronJobTimers(timers, s.id, s.cronTime, s.action)
    /\ jobs' = setCronJobRegistry(timers, jobs, s.id)
    /\ UNCHANGED <<now, up, store, fires, cancels, batches, initRows, liveBefore>>

\* The await of line 75 throws: scheduleTask rejects with the store's error
\* and never reaches line 88.
ScheduleTaskRejectsAndArms(s) ==
    /\ s \in scheds
    /\ s.error # Null
    /\ scheds' = scheds \ {s}
    /\ timers' = setCronJobTimers(timers, s.id, s.cronTime, s.action)
    /\ jobs' = setCronJobRegistry(timers, jobs, s.id)
    /\ UNCHANGED <<now, up, store, fires, cancels, batches, initRows, liveBefore>>

ScheduleTaskRejects(s) ==
    /\ s \in scheds
    /\ s.error # Null
    /\ scheds' = scheds \ {s}
    /\ UNCHANGED <<now, up, store, timers, jobs, fires, cancels, batches, initRows, liveBefore>>

(***************************************************************************)
(* getHelpers().setCronJob: an ephemeral job under the sentinel id.        *)
(***************************************************************************)
HelperSetCronJob(cronTime, action) ==
    /\ up = "up"
    /\ Len(store) + Cardinality(Ephemeral) < MaxJobs
    /\ timers' = setCronJobTimers(timers, NO_PERSISTANCE, cronTime, action)
    /\ jobs' = setCronJobRegistry(timers, jobs, NO_PERSISTANCE)
    /\ UNCHANGED <<now, up, store, scheds, fires, cancels, batches, initRows, liveBefore>>

(***************************************************************************)
(* The onTick callback of setCronJob.                                      *)
(***************************************************************************)
Due(h) ==
    /\ timers[h].running
    /\ timers[h].runOnce => now >= timers[h].cronTime.at

Firing(i, pc, emitted, error) == [timer |-> i, pc |-> pc, emitted |-> emitted, error |-> error]

\* The timer goes off: a one-shot CronJob stops itself, then onTick starts
\* and suspends in emitAction / emitSlash.
Fire(h) ==
    /\ h \in DOMAIN timers
    /\ Due(h)
    /\ InFlight < MaxInFlight
    /\ timers' = [timers EXCEPT ![h].running = ~timers[h].runOnce]
    /\ fires' = fires (+) SetToBag({Firing(h, "emit", Null, Null)})
    /\ UNCHANGED <<now, up, store, jobs, scheds, cancels, batches, initRows, liveBefore>>

Settled(f) == fires (-) SetToBag({f})
Moved(f, g) == Settled(f) (+) SetToBag({g})

EmitReturns(f) ==
    /\ f \in BagToSet(fires)
    /\ f.pc = "emit"
    /\ fires' = IF PatchOnSuccess(timers[f.timer])
                THEN Moved(f, Firing(f.timer, "patchDone", "ok", Null))
                ELSE Settled(f)
    /\ UNCHANGED <<now, up, store, timers, jobs, scheds, cancels, batches, initRows, liveBefore>>

EmitThrowsAndStops(f, error) ==
    /\ f \in BagToSet(fires)
    /\ f.pc = "emit"
    /\ fires' = IF PatchOnError(timers[f.timer])
                THEN Moved(f, Firing(f.timer, "patchError", "failed", error))
                ELSE Settled(f)
    /\ timers' = [timers EXCEPT ![f.timer].running = FALSE]
    /\ UNCHANGED <<now, up, store, jobs, scheds, cancels, batches, initRows, liveBefore>>

EmitThrows(f, error) ==
    /\ f \in BagToSet(fires)
    /\ f.pc = "emit"
    /\ fires' = IF PatchOnError(timers[f.timer])
                THEN Moved(f, Firing(f.timer, "patchError", "failed", error))
                ELSE Settled(f)
    /\ UNCHANGED <<now, up, store, timers, jobs, scheds, cancels, batches, initRows, liveBefore>>

PatchDoneReturns(f) ==
    /\ f \in BagToSet(fires)
    /\ f.pc = "patchDone"
    /\ store' = Patch(timers[f.timer].key, SuccessPatch)
    /\ fires' = Settled(f)
    /\ UNCHANGED <<now, up, timers, jobs, scheds, cancels, batches, initRows, liveBefore>>

\* The patch of line 43 is inside the try block: its failure is caught too.
PatchDoneThrows(f, error) ==
    /\ f \in BagToSet(fires)
    /\ f.pc = "patchDone"
    /\ fires' = IF PatchOnError(timers[f.timer])
                THEN Moved(f, Firing(f.timer, "patchError", f.emitted, error))
                ELSE Settled(f)
    /\ UNCHANGED <<now, up, store, timers, jobs, scheds, cancels, batches, initRows, liveBefore>>

PatchErrorReturns(f) ==
    /\ f \in BagToSet(fires)
    /\ f.pc = "patchError"
    /\ store' = Patch(timers[f.timer].key, ErrorPatch(f.error))
    /\ fires' = Settled(f)
    /\ UNCHANGED <<now, up, timers, jobs, scheds, cancels, batches, initRows, liveBefore>>

\* The patch of line 48 fails: the callback's promise rejects, unobserved.
PatchErrorThrows(f) ==
    /\ f \in BagToSet(fires)
    /\ f.pc = "patchError"
    /\ fires' = Settled(f)
    /\ UNCHANGED <<now, up, store, timers, jobs, scheds, cancels, batches, initRows, liveBefore>>

Tick ==
    /\ now < MaxTime
    /\ now' = now + 1
    /\ UNCHANGED <<up, store, timers, jobs, scheds, fires, cancels, batches, initRows, liveBefore>>

(***************************************************************************)
(* cancelCronJob(database, id, message).                                   *)
(***************************************************************************)
CancelPatch(message) == [done |-> "false", error |-> message]

\* `call` is 0 for a direct killTasks({id}), the slot of the filter call
\* that fanned it out, or Detached once that call has already settled.
\* `wasRunning` is history: whether the CronJob it stopped was still running.
Detached == -1
Cancel(id, message, pc, call, wasRunning) ==
    [id |-> id, message |-> message, pc |-> pc, call |-> call, wasRunning |-> wasRunning]

\* Lines 139-141: throws a TypeError when jobs[id] is undefined.
CanStop(js, id) == id \in DOMAIN js
Stopped(ts, js, id) == [ts EXCEPT ![js[id]].running = FALSE]
DeletedNothing(js, id) == js
Deleted(js, id) == [k \in DOMAIN js \ {id} |-> js[k]]

\* One cancelCronJob of a filter call has rejected: Promise.all rejects,
\* killTasks with it, and the other cancellations run on unobserved.
RejectedInAbortsAll(cs, call) ==
    {c \in cs : c.call # call \/ call = 0}
RejectedIn(cs, call) ==
    {IF c.call = call /\ call # 0 THEN [c EXCEPT !.call = Detached] ELSE c : c \in cs}

BatchesAfterReject(call) == {b \in batches : b.slot # call}
BatchesAfterResolve(cs, call) ==
    {b \in batches : b.slot # call \/ \E c \in cs : c.call = call}

CancelFindReturns(c) ==
    /\ c \in cancels
    /\ c.pc = "findById"
    /\ IF c.id \in Ids
       THEN /\ cancels' = (cancels \ {c}) \cup {[c EXCEPT !.pc = "patch"]}
            /\ UNCHANGED batches
       ELSE \* persistedJob is undefined: persistedJob.$query() throws
            /\ cancels' = RejectedIn(cancels \ {c}, c.call)
            /\ batches' = BatchesAfterReject(c.call)
    /\ UNCHANGED <<now, up, store, timers, jobs, scheds, fires, initRows, liveBefore>>

CancelFindThrows(c) ==
    /\ c \in cancels
    /\ c.pc = "findById"
    /\ cancels' = RejectedIn(cancels \ {c}, c.call)
    /\ batches' = BatchesAfterReject(c.call)
    /\ UNCHANGED <<now, up, store, timers, jobs, scheds, fires, initRows, liveBefore>>

CancelPatchReturns(c) ==
    /\ c \in cancels
    /\ c.pc = "patch"
    /\ store' = Patch(c.id, CancelPatch(c.message))
    /\ cancels' = cancels \ {c}
    /\ batches' = BatchesAfterResolve(cancels \ {c}, c.call)
    /\ UNCHANGED <<now, up, timers, jobs, scheds, fires, initRows, liveBefore>>

CancelPatchThrows(c) ==
    /\ c \in cancels
    /\ c.pc = "patch"
    /\ cancels' = RejectedIn(cancels \ {c}, c.call)
    /\ batches' = BatchesAfterReject(c.call)
    /\ UNCHANGED <<now, up, store, timers, jobs, scheds, fires, initRows, liveBefore>>

(***************************************************************************)
(* killTasks(database, {id, user, slash, action, conversationWith,         *)
(* conversationAs = 'bot'}, message = 'Killed by Aido command').           *)
(***************************************************************************)
Undefined == "undefined"
DefaultConversationAs(conversationAs) ==
    IF conversationAs = Undefined THEN "bot" ELSE conversationAs
MessageOrDefault(message) ==
    IF message = Undefined THEN DefaultMessage ELSE message

\* if (id): the direct path.  A call on a key absent from the registry
\* rejects at once and changes nothing.
KillTasksById(id, message) ==
    /\ up = "up"
    /\ InFlight < MaxInFlight
    /\ IF CanStop(jobs, id)
       THEN /\ timers' = Stopped(timers, jobs, id)
            /\ jobs' = Deleted(jobs, id)
            /\ cancels' = cancels \cup
                 {Cancel(id, MessageOrDefault(message), "findById", 0, timers[jobs[id]].running)}
       ELSE UNCHANGED <<timers, jobs, cancels>>
    /\ UNCHANGED <<now, up, store, scheds, fires, batches, initRows, liveBefore>>

Filter(user, slash, action, conversationWith, conversationAs) ==
    [user |-> user, slash |-> slash, action |-> action,
     conversationWith |-> conversationWith,
     conversationAs |-> DefaultConversationAs(conversationAs)]

\* Lines 113-126: the rows the query returns at second t.
TimeCondition(cron, t) == StrGreaterOrEqual(cron, toISOString(t))
Matches(row, filter, t) ==
    /\ row.done = Null
    /\ TimeCondition(row.cron, t)
    /\ filter.user # Null => row.user = filter.user
    /\ filter.slash # Null => row.slash = filter.slash
    /\ filter.action # Null => row.action = filter.action
    /\ filter.conversationAs # Null => row.conversationAs = filter.conversationAs
    /\ filter.conversationWith # Null => row.conversationWith = filter.conversationWith

FreeSlots == (1..MaxInFlight) \ {b.slot : b \in batches}

KillTasksByFilter(filter, message) ==
    /\ up = "up"
    /\ InFlight < MaxInFlight
    /\ batches' = batches \cup
         {[slot |-> CHOOSE s \in FreeSlots : \A r \in FreeSlots : s <= r,
           pc |-> "query", message |-> MessageOrDefault(message),
           ids |-> {id \in Ids : Matches(store[id], filter, now)}]}
    /\ UNCHANGED <<now, up, store, timers, jobs, scheds, fires, cancels, initRows, liveBefore>>

\* Line 127: persistedJobs.map(...) runs the synchronous head of every
\* cancelCronJob, in order; Promise.all then waits.
RECURSIVE StopAll(_, _, _)
StopAll(ids, ts, js) ==
    IF ids = {} THEN <<ts, js>>
    ELSE LET id == CHOOSE i \in ids : \A j \in ids : i <= j
         IN  IF CanStop(js, id)
             THEN StopAll(ids \ {id}, Stopped(ts, js, id), Deleted(js, id))
             ELSE StopAll(ids \ {id}, ts, js)

KillTasksFanOut(b) ==
    /\ b \in batches
    /\ b.pc = "query"
    /\ InFlight - 1 + Cardinality({id \in b.ids : CanStop(jobs, id)}) <= MaxInFlight
    /\ LET started == {id \in b.ids : CanStop(jobs, id)}
           call == IF started = b.ids THEN b.slot ELSE Detached
           after == StopAll(b.ids, timers, jobs)
       IN  /\ timers' = after[1]
           /\ jobs' = after[2]
           /\ cancels' = cancels \cup
                {Cancel(id, b.message, "findById", call, timers[jobs[id]].running) : id \in started}
           /\ batches' = IF started = b.ids /\ b.ids # {}
                         THEN (batches \ {b}) \cup {[b EXCEPT !.pc = "all"]}
                         ELSE batches \ {b}
    /\ UNCHANGED <<now, up, store, scheds, fires, initRows, liveBefore>>

\* killTasks as it is called: `args` is the object of the first parameter,
\* its id <<>> when none is given and <<id>> otherwise, so that `if (id)`
\* is a test for the empty sequence.
Args(id, user, slash, action, conversationWith, conversationAs) ==
    [id |-> id, user |-> user, slash |-> slash, action |-> action,
     conversationWith |-> conversationWith, conversationAs |-> conversationAs]
NoId == <<>>
FilterOf(args) ==
    Filter(args.user, args.slash, args.action, args.conversationWith, args.conversationAs)

KillTasksFilterFirst(args, message) ==
    IF args.id # NoId /\ args.user = Null /\ args.action = Null
    THEN KillTasksById(args.id[1], message)
    ELSE KillTasksByFilter(FilterOf(args), message)

KillTasks(args, message) ==
    IF args.id # NoId
    THEN KillTasksById(args.id[1], message)
    ELSE KillTasksByFilter(FilterOf(args), message)

(***************************************************************************)
(* A restart of the process, and initPlugin.                               *)
(***************************************************************************)
NoJobs == [k \in {} |-> <<>>]
NoTimers == [h \in {} |-> <<>>]
OneSecond == 1

Restart ==
    /\ up = "up"
    /\ up' = "down"
    /\ timers' = NoTimers
    /\ jobs' = NoJobs
    /\ scheds' = {}
    /\ fires' = EmptyBag
    /\ cancels' = {}
    /\ batches' = {}
    /\ liveBefore' = {k \in DOMAIN jobs : timers[jobs[k]].running}
    /\ UNCHANGED <<now, store, initRows>>

InitPluginQueryAll ==
    /\ up = "down"
    /\ up' = "init"
    /\ initRows' = Ids
    /\ UNCHANGED <<now, store, timers, jobs, scheds, fires, cancels, batches, liveBefore>>

InitPluginQuery ==
    /\ up = "down"
    /\ up' = "init"
    /\ initRows' = {id \in Ids : store[id].done = Null}
    /\ UNCHANGED <<now, store, timers, jobs, scheds, fires, cancels, batches, liveBefore>>

RecoveredCronTimeSameOrBefore(cron, t) ==
    IF isValid(cron)
    THEN IF momentOf(cron) <= t
         THEN DateTime(t + OneSecond)
         ELSE DateTime(momentOf(cron))
    ELSE PatternTime(cron)

\* Lines 243-254, with moment() = t.
RecoveredCronTime(cron, t) ==
    IF isValid(cron)
    THEN IF momentOf(cron) < t
         THEN DateTime(t + OneSecond)
         ELSE DateTime(momentOf(cron))
    ELSE PatternTime(cron)

RECURSIVE Requeue(_, _, _)
Requeue(ids, ts, js) ==
    IF ids = {} THEN <<ts, js>>
    ELSE LET id == CHOOSE i \in ids : \A j \in ids : i <= j
             cronTime == RecoveredCronTime(store[id].cron, now)
         IN  Requeue(ids \ {id},
                     setCronJobTimers(ts, id, cronTime, store[id].action),
                     setCronJobRegistry(ts, js, id))

InitPluginRequeue ==
    /\ up = "init"
    /\ up' = "up"
    /\ LET after == Requeue(initRows, timers, jobs)
       IN  timers' = after[1] /\ jobs' = after[2]
    /\ initRows' = {}
    /\ liveBefore' = {}
    /\ UNCHANGED <<now, store, scheds, fires, cancels, batches>>

(***************************************************************************)
(* The specification.                                                      *)
(***************************************************************************)
Init ==
    /\ now = 0
    /\ up = "up"
    /\ store = <<>>
    /\ timers = NoTimers
    /\ jobs = NoJobs
    /\ scheds = {}
    /\ fires = EmptyBag
    /\ cancels = {}
    /\ batches = {}
    /\ initRows = {}
    /\ liveBefore = {}

\* The requests made of scheduleTask: a slash posted as the bot, and an
\* action for another user with no posting mode given.
Requests ==
    {[user |-> "U1", slash |-> "fnord", action |-> Null, conversationAs |-> "bot"],
     [user |-> "U2", slash |-> "fnord", action |-> "someAction", conversationAs |-> Null]}

KillIds == (1..MaxJobs) \cup {NO_PERSISTANCE}
\* The messages of the README: stop() passes one with the id, stopAll() one
\* with the filter; a call by id may also pass none.
IdMessageArgs == {Undefined, "Job was killed"}
FilterMessageArgs == {"Entire batch of jobs was killed"}
FilterArgs ==
    {Args(NoId, u, s, a, w, c) : u \in Users \cup {Null}, s \in {Null}, a \in Actions \cup {Null},
                                 w \in {Null}, c \in {Undefined, Null}}
\* A call by id: the id alone, or with the fields of the second request
\* next to it.
IdArgs ==
    {Args(<<id>>, Null, Null, Null, Null, Undefined) : id \in KillIds}
      \cup {Args(<<id>>, "U2", Null, "someAction", Null, Null) : id \in KillIds}

Next ==
    \/ Tick
    \/ \E c \in CronTimes, r \in Requests :
          ScheduleTask(c, r.user, r.slash, r.action, r.conversationAs)
    \/ \E c \in CronTimes, r \in Requests, e \in StoreErrors :
          ScheduleTaskInsertFails(c, r.action, e)
    \/ \E s \in scheds : ScheduleTaskArm(s)
    \/ \E s \in scheds : ScheduleTaskRejects(s)
    \/ \E c \in CronTimes : HelperSetCronJob(c, Null)
    \/ \E h \in DOMAIN timers : Fire(h)
    \/ \E f \in BagToSet(fires) : EmitReturns(f)
    \/ \E f \in BagToSet(fires), e \in DispatchErrors : EmitThrows(f, e)
    \/ \E f \in BagToSet(fires) : PatchDoneReturns(f)
    \/ \E f \in BagToSet(fires), e \in StoreErrors : PatchDoneThrows(f, e)
    \/ \E f \in BagToSet(fires) : PatchErrorReturns(f)
    \/ \E f \in BagToSet(fires) : PatchErrorThrows(f)
    \/ \E a \in IdArgs, m \in IdMessageArgs : KillTasks(a, m)
    \/ \E a \in FilterArgs, m \in FilterMessageArgs : KillTasks(a, m)
    \/ \E b \in batches : KillTasksFanOut(b)
    \/ \E c \in cancels : CancelFindReturns(c)
    \/ \E c \in cancels : CancelFindThrows(c)
    \/ \E c \in cancels : CancelPatchReturns(c)
    \/ \E c \in cancels : CancelPatchThrows(c)
    \/ Restart
    \/ InitPluginQuery
    \/ InitPluginRequeue

Spec == Init /\ [][Next]_vars

(***************************************************************************)
(* Vocabulary of the properties.                                           *)
(***************************************************************************)
OneShot(id) == isValid(store[id].cron)
Recurring(id) == ~isValid(store[id].cron)
KeyOf(f) == timers[f.timer].key
FiringsOf(key) == {f \in BagToSet(fires) : KeyOf(f) = key}
CancelsOf(key) == {c \in cancels : c.id = key}

\* The callback f returns in this step.
Finishes(f) ==
    \/ f.pc = "emit" /\ fires' = Settled(f) /\ (EmitReturns(f) \/ \E e \in DispatchErrors : EmitThrows(f, e))
    \/ PatchDoneReturns(f)
    \/ PatchErrorReturns(f)
    \/ PatchErrorThrows(f)

\* The dispatch of the callback that finishes in this step succeeded.
DispatchSucceeded(f) == IF f.pc = "emit" THEN EmitReturns(f) ELSE f.emitted = "ok"

\* f is the callback of a persisted one-shot job that has not been cancelled:
\* cancelCronJob is what removes a registry entry.
UncancelledOneShot(f) ==
    /\ timers[f.timer].runOnce
    /\ KeyOf(f) # NO_PERSISTANCE
    /\ KeyOf(f) \in DOMAIN jobs
    /\ jobs[KeyOf(f)] = f.timer

(***************************************************************************)
(* C1, as stated: when the fire callback of a persisted one-shot job that  *)
(* was not cancelled has finished, done is true iff the dispatch           *)
(* succeeded, and after a failed dispatch done is false and error is the   *)
(* string form of the dispatch error.                                      *)
(***************************************************************************)
C1_DoneIffDispatched ==
    [][\A f \in BagToSet(fires) :
          Finishes(f) /\ UncancelledOneShot(f) =>
             /\ store'[KeyOf(f)].done = "true" <=> DispatchSucceeded(f)
             /\ ~DispatchSucceeded(f) =>
                  /\ store'[KeyOf(f)].done = "false"
                  /\ store'[KeyOf(f)].error = ErrorToString(f.error)]_vars

(***************************************************************************)
(* C1, amended: when that callback has finished, done is true iff the      *)
(* dispatch succeeded and the store accepted the {done: true} patch; after *)
(* a failed dispatch whose failure patch the store accepted, done is false *)
(* and error is the string form of the dispatch error; a rejected          *)
(* {done: true} patch is recorded like a failure, with the store's error,  *)
(* and a rejected failure patch leaves the record as it was.               *)
(***************************************************************************)
C1_DoneIffDispatchedAndStored ==
    [][\A f \in BagToSet(fires) :
          Finishes(f) /\ UncancelledOneShot(f) =>
             /\ store'[KeyOf(f)].done = "true" <=> DispatchSucceeded(f) /\ f.pc # "patchError"
             /\ PatchErrorReturns(f) =>
                  /\ store'[KeyOf(f)].done = "false"
                  /\ store'[KeyOf(f)].error = ErrorToString(f.error)
                  /\ f.emitted = "failed" => f.error \in DispatchErrors
                  /\ f.emitted = "ok" => f.error \in StoreErrors
             /\ PatchErrorThrows(f) => store' = store]_vars

\* A one-shot job has fired, its dispatch failed and the failure is recorded.
C1_Witness ==
    \E id \in Ids :
        /\ OneShot(id) /\ id \in DOMAIN jobs /\ ~timers[jobs[id]].running
        /\ FiringsOf(id) = {}
        /\ store[id].done = "false"
        /\ store[id].error = "Error: network down"

(***************************************************************************)
(* C2, as stated, for the one-shot jobs: once the job has fired and its    *)
(* callback has finished, and whenever its record is in a terminal state   *)
(* (done set), the job's id is not a key of the registry.                  *)
(***************************************************************************)
C2_TerminalUnregistered ==
    \A id \in Ids :
        OneShot(id) /\ id \in DOMAIN jobs =>
            /\ store[id].done = Null
            /\ timers[jobs[id]].running \/ FiringsOf(id) # {}

(***************************************************************************)
(* C3, as stated: the record of a recurring job that has not been          *)
(* cancelled (its registry entry is still there) has done unset, whatever  *)
(* its firings did.                                                        *)
(***************************************************************************)
C3_RecurringStaysPending ==
    \A id \in Ids :
        Recurring(id) /\ id \in DOMAIN jobs /\ CancelsOf(id) = {} => store[id].done = Null

(***************************************************************************)
(* C4.  The messages a call by id passes are its own (IdMessageArgs), so a *)
(* record whose error is one of them was patched by a killTasks({id}).     *)
(***************************************************************************)
IdKillMessages == {MessageOrDefault(m) : m \in IdMessageArgs}

Killed(id, message) ==
    /\ id \notin DOMAIN jobs
    /\ store[id].done = "false"
    /\ store[id].error = message

\* C4, as stated: once killTasks({id}, message) has completed and nothing
\* about the job is in flight any more, the id is absent from the registry
\* and the record has done = false and error = message, also when a firing
\* of the job was suspended in its dispatch during the cancellation.
C4_KilledInFinalState ==
    \A id \in Ids :
        store[id].error \in IdKillMessages /\ FiringsOf(id) = {} /\ CancelsOf(id) = {}
            => Killed(id, store[id].error)

\* C4, amended: when killTasks({id}, message) completes for a persisted job
\* that had a live timer, the id is absent from the registry and the record
\* has done = false and error = message (the default message when none was
\* given); and this lasts for ever after if no firing of the job is still in
\* flight at that moment.  A firing that outlives the cancellation
\* overwrites the record: the last write wins.
C4_KilledWhenNoFiringOutlives ==
    /\ [][\A c \in cancels :
             c.call = 0 /\ c.wasRunning /\ CancelPatchReturns(c) =>
                 Killed(c.id, c.message)' /\ c.message \in IdKillMessages]_vars
    /\ [][\A id \in Ids : \A m \in IdKillMessages :
             Killed(id, m) /\ FiringsOf(id) = {} /\ CancelsOf(id) = {} =>
                 (Killed(id, m) /\ FiringsOf(id) = {} /\ CancelsOf(id) = {})']_vars

\* A job with a live timer was killed by id with no message given.
C4_Witness ==
    \E id \in Ids :
        /\ Killed(id, DefaultMessage)
        /\ FiringsOf(id) = {} /\ CancelsOf(id) = {}
        /\ id \in {h[1] : h \in DOMAIN timers}

(***************************************************************************)
(* C5, as stated: killTasks({user: U}) selects every pending record of U   *)
(* whose one-shot timer has not fired yet, whatever its conversationAs,    *)
(* and no record of another user and no completed record.                  *)
(***************************************************************************)
UserOnly(user) == Filter(user, Null, Null, Null, Undefined)
NotYetFired(id) == OneShot(id) /\ id \in DOMAIN jobs /\ timers[jobs[id]].running

C5_UserFilterSelectsAllPending ==
    [][\A u \in Users : \A m \in FilterMessageArgs :
          KillTasksByFilter(UserOnly(u), m) =>
             \A b \in batches' \ batches :
                /\ \A id \in Ids :
                      store[id].user = u /\ store[id].done = Null /\ NotYetFired(id)
                         => id \in b.ids
                /\ \A id \in b.ids : store[id].user = u /\ store[id].done = Null]_vars

(***************************************************************************)
(* C6, as stated: the filter of killTasks({user: U}) selects the pending   *)
(* record of a recurring job of U (one posted as the bot, so that the      *)
(* default posting mode matches).                                          *)
(***************************************************************************)
C6_FilterSelectsRecurring ==
    \A id \in Ids :
        Recurring(id) /\ store[id].done = Null /\ store[id].conversationAs = "bot"
            => Matches(store[id], UserOnly(store[id].user), now)

(***************************************************************************)
(* C7, as stated: after a restart and initPlugin, every persisted job      *)
(* whose timer was running when the process stopped has a running timer    *)
(* again.                                                                  *)
(***************************************************************************)
C7_LiveTimersSurviveRestart ==
    [][InitPluginRequeue =>
          \A id \in liveBefore \ {NO_PERSISTANCE} :
              id \in DOMAIN jobs' /\ timers'[jobs'[id]].running]_vars

(***************************************************************************)
(* C8, as stated: cancelling the ephemeral job by id issues no store       *)
(* operation: no cancelCronJob for the sentinel id is ever waiting for     *)
(* findById or for a patch.                                                *)
(***************************************************************************)
C8_NoStoreCallForEphemeral ==
    \A c \in cancels : c.id # NO_PERSISTANCE

(***************************************************************************)
(* C9, as stated: a killTasks({id}) that completes without an error found  *)
(* a live timer under that id (and a record, which the patch implies).     *)
(***************************************************************************)
C9_KillWithoutLiveTimerFails ==
    [][\A c \in cancels :
          c.call = 0 /\ CancelPatchReturns(c) => c.wasRunning /\ c.id \in Ids]_vars

C11_InsertFailureRegistersNothing ==
    /\ [][\A s \in scheds' \ scheds :
             IF s.error = Null
             THEN /\ Len(store') = Len(store) + 1
                  /\ s.id = Len(store')
                  /\ store'[s.id].cron = CronColumn(s.cronTime)
             ELSE s.error \in StoreErrors /\ store' = store]_vars
    /\ [][\A s \in scheds \ scheds' :
             up' = "up" /\ s.error # Null =>
                 jobs' = jobs /\ timers' = timers /\ store' = store]_vars
    /\ [][\A s \in scheds \ scheds' :
             up' = "up" /\ s.error = Null =>
                 LET id == ScheduleTaskReturn(s)
                 IN  /\ id = s.id /\ id \in Ids
                     /\ DOMAIN jobs' = DOMAIN jobs \cup {id}
                     /\ \A k \in DOMAIN jobs \ {id} : jobs'[k] = jobs[k]
                     /\ DOMAIN timers' \ DOMAIN timers = {jobs'[id]}
                     /\ timers'[jobs'[id]].key = id
                     /\ timers'[jobs'[id]].cronTime = s.cronTime
                     /\ timers'[jobs'[id]].running]_vars

\* A scheduleTask has resolved with the id of its row and its timer runs;
\* the insert of another has been refused and its rejection is on its way.
C11_Witness ==
    /\ \E s \in scheds : s.error \in StoreErrors
    /\ Len(store) = 1
    /\ DOMAIN jobs = {1}
    /\ timers[jobs[1]].running

(***************************************************************************)
(* C12: an ephemeral job never causes a store write.  The step that        *)
(* creates it through the helper leaves the table alone and issues no      *)
(* insert; no callback of an ephemeral job is ever waiting for a patch;    *)
(* and when its dispatch returns or throws, the callback finishes in that  *)
(* very step, the error swallowed, with the table unchanged.               *)
(***************************************************************************)
C12_EphemeralNeverWrites ==
    /\ [](\A f \in BagToSet(fires) : KeyOf(f) = NO_PERSISTANCE => f.pc = "emit")
    /\ [][(\E h \in DOMAIN timers' \ DOMAIN timers : h[1] = NO_PERSISTANCE) =>
              store' = store /\ scheds' = scheds]_vars
    /\ [][\A h \in Ephemeral : Fire(h) => store' = store]_vars
    /\ [][\A f \in BagToSet(fires) :
              /\ KeyOf(f) = NO_PERSISTANCE
              /\ EmitReturns(f) \/ \E e \in DispatchErrors : EmitThrows(f, e)
              => store' = store /\ fires' = Settled(f)]_vars

\* An ephemeral one-shot job has fired and its callback has finished, next
\* to a record that is still pending.
C12_Witness ==
    /\ \E h \in Ephemeral : timers[h].runOnce /\ ~timers[h].running
    /\ FiringsOf(NO_PERSISTANCE) = {}
    /\ \E id \in Ids : store[id].done = Null /\ store[id].error = Null

(***************************************************************************)
(* C13: a killTasks called with an id, whatever else is passed next to the *)
(* id, starts no query and touches that job only: its first step leaves    *)
(* the table, every other registry entry and every other timer as they     *)
(* were and starts at most the cancellation of that id; and the patch of   *)
(* that cancellation changes the record of that id and nothing else.       *)
(***************************************************************************)
C13_KillByIdTouchesThatJobOnly ==
    /\ [][Cardinality(cancels') > Cardinality(cancels) \/ Cardinality(batches') > Cardinality(batches) =>
           \A a \in IdArgs : \A m \in IdMessageArgs :
              KillTasks(a, m) =>
                 LET id == a.id[1]
                 IN  /\ store' = store /\ batches' = batches
                     /\ \A c \in cancels' \ cancels : c.id = id /\ c.call = 0
                     /\ DOMAIN jobs \ {id} = DOMAIN jobs' \ {id}
                     /\ \A k \in DOMAIN jobs \ {id} : jobs'[k] = jobs[k]
                     /\ DOMAIN timers' = DOMAIN timers
                     /\ \A h \in DOMAIN timers :
                           (id \in DOMAIN jobs => h # jobs[id]) => timers'[h] = timers[h]]_vars
    /\ [][\A c \in cancels :
              c.call = 0 /\ c \notin cancels' /\ up' = "up" =>
                 /\ timers' = timers /\ jobs' = jobs
                 /\ \A i \in Ids \ {c.id} : store'[i] = store[i]]_vars

\* The job of the first request has been killed by id; the job of the
\* second request, of user U2, runs on with its record pending.
C13_Witness ==
    /\ Len(store) = 2 /\ store[1].user = "U1" /\ store[2].user = "U2"
    /\ Killed(1, DefaultMessage) /\ CancelsOf(1) = {}
    /\ 2 \in DOMAIN jobs /\ timers[jobs[2]].running
    /\ store[2].done = Null /\ store[2].error = Null

(***************************************************************************)
(* C14, as stated: whenever the process is up after its recovery and no    *)
(* scheduleTask, cancellation or killTasks is in progress, every record    *)
(* with done unset (and no firing under way) has exactly one running timer *)
(* made for its id, and the registry holds that timer under that id.       *)
(***************************************************************************)
C14_PendingHasOneLiveTimer ==
    up = "up" /\ scheds = {} /\ cancels = {} /\ batches = {} =>
        \A id \in Ids :
            store[id].done = Null /\ FiringsOf(id) = {} =>
                /\ Cardinality({h \in DOMAIN timers : h[1] = id /\ timers[h].running}) = 1
                /\ id \in DOMAIN jobs
                /\ timers[jobs[id]].running

C16_OthersStillCancelled ==
    /\ [][\A b \in batches :
              KillTasksFanOut(b) =>
                 \A id \in b.ids :
                    CanStop(jobs, id) =>
                       /\ ~timers'[jobs[id]].running
                       /\ id \notin DOMAIN jobs'
                       /\ \E c \in cancels' :
                             c.id = id /\ c.message = b.message /\ c.pc = "findById"]_vars
    /\ [][\A c \in cancels :
              c.call # 0 /\ (CancelFindThrows(c) \/ CancelPatchThrows(c)) =>
                 /\ store' = store /\ timers' = timers /\ jobs' = jobs
                 /\ \A o \in cancels \ {c} :
                       \E n \in cancels' :
                          n.id = o.id /\ n.message = o.message /\ n.pc = o.pc]_vars
    /\ [][\A c \in cancels :
              c.call # 0 /\ CancelPatchReturns(c) =>
                 /\ store'[c.id].done = "false" /\ store'[c.id].error = c.message
                 /\ c.id \notin DOMAIN jobs'
                 /\ \A h \in DOMAIN timers' : h[1] = c.id => ~timers'[h].running]_vars

\* One cancellation of a batch has failed; another one of the same batch,
\* its timer stopped and its entry removed, has found its record and is
\* about to patch it.
C16_Witness ==
    \E c \in cancels :
        /\ c.call = Detached /\ c.pc = "patch"
        /\ c.id \notin DOMAIN jobs
        /\ store[c.id].done = Null
        /\ \E id \in Ids \ {c.id} : store[id].done = Null /\ CancelsOf(id) = {}

(***************************************************************************)
(* C17, as stated: when a filter-path killTasks settles, none of the       *)
(* cancellations it fanned out still has a store lookup or a patch         *)
(* pending: a call that settles in its fan-out step leaves no new          *)
(* cancellation behind, and a call that settles later does so with the     *)
(* step of the last cancellation it was waiting for.                       *)
(***************************************************************************)
C17_SettlesAfterAllCancellations ==
    [][\A b \in batches :
          up' = up /\ (\A x \in batches' : x.slot # b.slot) =>
             IF b.pc = "query"
             THEN cancels' \subseteq cancels
             ELSE Cardinality({c \in cancels : c.call = b.slot}) = 1]_vars

C19_SucceededIsAbsorbing ==
    [][\A id \in Ids :
          store[id].done = "true" =>
              store'[id].done = "true" /\ store'[id].error = store[id].error]_vars

(***************************************************************************)
(* C20, as stated: every running timer is the value of some entry of the   *)
(* registry, so that a killTasks can reach it; also after two ephemeral    *)
(* jobs have been created through the helper.                              *)
(***************************************************************************)
C20_NoOrphanTimer ==
    \A h \in DOMAIN timers :
        timers[h].running => \E k \in DOMAIN jobs : jobs[k] = h

\* A job that is over: its record is closed, no timer made for its id runs,
\* the registry has no entry for it and nothing is about to arm it.
Retired(id) ==
    /\ store[id].done # Null
    /\ \A h \in DOMAIN timers : h[1] = id => ~timers[h].running
    /\ id \notin DOMAIN jobs
    /\ id \notin initRows
    /\ \A s \in scheds : s.id # id

(***************************************************************************)
(* C21: after a killTasks({id}) has completed successfully for a persisted *)
(* job, no firing of that job begins any more.  When the patch of the      *)
(* cancellation returns the job is retired: its record has done set, no    *)
(* timer made for its id is running, the registry has no entry for it and  *)
(* nothing is about to arm it.  A retired job stays retired across every   *)
(* step, restart and recovery included, and no step starts a callback of a *)
(* retired job.                                                            *)
(***************************************************************************)
C21_NoFiringAfterKill ==
    /\ [][\A c \in cancels :
              c.call = 0 /\ CancelPatchReturns(c) => Retired(c.id)']_vars
    /\ [][\A id \in Ids :
              Retired(id) =>
                 /\ Retired(id)'
                 /\ \A h \in DOMAIN timers : h[1] = id => ~Fire(h)
                 /\ \A f \in BagToSet(fires') :
                       timers'[f.timer].key = id /\ f.pc = "emit" =>
                          f \in BagToSet(fires) /\ CopiesIn(f, fires') <= CopiesIn(f, fires)]_vars

\* A job was killed by id in an earlier run of the process: after the
\* restart and the recovery it has no timer, while another job runs.
C21_Witness ==
    /\ up = "up"
    /\ \E id \in Ids :
          /\ Killed(id, "Job was killed")
          /\ \A h \in DOMAIN timers : h[1] # id
          /\ \E k \in DOMAIN jobs \ {id, NO_PERSISTANCE} : timers[jobs[k]].running

====
